---- MODULE Spec2Model ----
(***************************************************************************)
(* Model of slurm_install_manager/slurm_install_ops.py: the                *)
(* SlurmInstallManager of one host.  The state is the durable StoredState  *)
(* (slurm_installed, slurm_started), the live manager object (its          *)
(* component), the parts of the host the methods read and write, and the   *)
(* position of a running prepare_system_for_slurm.  The caller is          *)
(* single-threaded: a public method starts only when none is running.      *)
(***************************************************************************)
EXTENDS Integers, Sequences, FiniteSets, TLC

\* ------------------------------------------------------------------ data

\* The keys __init__ accepts (lines 48-56).
Roles == {"slurmd", "slurmrestd", "slurmctld", "slurmdbd"}

\* Keys a caller may pass to __init__: the roles and one unsupported key.
Keys == Roles \cup {"munge"}

\* The operations slurm_systemctl accepts (line 76).
Operations == {"start", "stop", "restart"}

\* Operations a caller (or _setup_systemd, line 264) may pass.
OperationInputs == Operations \cup {"enable", "destroy"}

\* The outcome of subprocess.call: the exit status is zero or not, or the
\* process cannot be spawned at all and call raises OSError.
Outcomes == {"zero", "nonzero", "nospawn"}

\* The attributes an instance has: those __init__ assigns, the class
\* attributes and properties, and `model` of ops.framework.Object.
InstanceAttrs ==
    {"_store", "_CHARM_DIR", "_TEMPLATE_DIR", "_SLURM_CONF_DIR", "_SLURM_USER",
     "_SLURM_UID", "_SLURM_GROUP", "_SLURM_GID", "_SLURM_TMP_RESOURCE",
     "_slurm_component", "_slurm_conf_template", "_slurm_conf",
     "_source_systemd_template", "_target_systemd_template",
     "slurm_installed", "slurm_component_started", "model", "framework",
     "handle"}

HasAttr(name) == name \in InstanceAttrs

\* _slurm_conf of a component (lines 51, 56).
_slurm_conf(key) ==
    IF key = "slurmdbd" THEN "/etc/slurm/slurmdbd.conf" ELSE "/etc/slurm/slurm.conf"

\* _slurm_conf_template of a component (lines 50, 55).
_slurm_conf_template(key) ==
    IF key = "slurmdbd" THEN "slurmdbd.conf.tmpl" ELSE "slurm.conf.tmpl"

ConfPaths == {_slurm_conf(k) : k \in Roles}

\* Directories of _prepare_filesystem and _prepare_for_slurmd, in order.
slurm_dirs == <<"/etc/sysconfig/slurm", "/var/log/slurm">>

slurmd_dirs ==
    <<"/var/spool/slurmd", "/var/run/slurmd", "/var/lib/slurmd", "/etc/slurm">>

slurmd_files ==
    <<"/var/lib/slurmd/node_state", "/var/lib/slurmd/front_end_state",
      "/var/lib/slurmd/job_state", "/var/lib/slurmd/resv_state",
      "/var/lib/slurmd/trigger_state", "/var/lib/slurmd/assoc_mgr_state",
      "/var/lib/slurmd/assoc_usage", "/var/lib/slurmd/qos_usage",
      "/var/lib/slurmd/fed_mgr_state">>

slurm_resource_dirs == <<"bin", "sbin", "lib", "include">>

Range(s) == {s[i] : i \in DOMAIN s}

\* ------------------------------------------------------------------ state

VARIABLES
    component,  \* _slurm_component of the live manager, "none" when there is none
    store,      \* the StoredState: a function on the keys that are set
    host,       \* the host: directories, files, accounts, units, config files
    pc,         \* "idle", or the step a running prepare_system_for_slurm is at
    log,        \* the external commands the current (or last) call has issued
    call,       \* the current (or last) call: method, argument, exception, ...
    completed,  \* whether some prepare_system_for_slurm has returned normally
    calls       \* how many calls of the public methods there have been

vars == <<component, store, host, pc, log, call, completed, calls>>

\* ------------------------------------------------------------------ frames
\* A frame is what a method works on while it runs: the store, the host, the
\* commands issued so far, the exception in flight ("none" when there is
\* none), whether every command so far exited 0, the last outcome, and the
\* context handed to the template (empty until write_config has built it).
\* Every primitive is skipped while an exception is in flight, which is how
\* a statement after a raising statement does not run.

NoItems == [k \in {} |-> ""]

Frame(st, h, lg, allZero, rc) ==
    [store |-> st, host |-> h, log |-> lg, exc |-> "none",
     allZero |-> allZero, rc |-> rc, ctxt |-> NoItems]

Raise(f, e) == IF f.exc # "none" THEN f ELSE [f EXCEPT !.exc = e]

\* subprocess.check_call(argv) in the place of subprocess.call: an exit
\* status other than 0 raises CalledProcessError.
subprocess_check_call(f, argv, oc) ==
    IF f.exc # "none" THEN f
    ELSE [f EXCEPT !.log = Append(@, argv),
                   !.rc = oc,
                   !.allZero = @ /\ oc = "zero",
                   !.exc = IF oc = "nospawn" THEN "OSError"
                           ELSE IF oc = "nonzero" THEN "CalledProcessError"
                           ELSE "none"]

\* subprocess.call(argv): one child is spawned and waited for; the exit
\* status is returned and never raises; a child that cannot be spawned
\* raises OSError.
subprocess_call(f, argv, oc) ==
    IF f.exc # "none" THEN f
    ELSE [f EXCEPT !.log = Append(@, argv),
                   !.rc = oc,
                   !.allZero = @ /\ oc = "zero",
                   !.exc = IF oc = "nospawn" THEN "OSError" ELSE "none"]

\* `except subprocess.CalledProcessError as e: logger.error(...)`: the only
\* handler the module has around its commands.
except_CalledProcessError(f) ==
    IF f.exc = "CalledProcessError" THEN [f EXCEPT !.exc = "none"] ELSE f

\* Whether the last command of the frame ran and exited 0.
Succeeded(f) == f.exc = "none" /\ f.rc = "zero"

\* StoredState.set_default and attribute assignment.
set_default(st, k, v) == IF k \in DOMAIN st THEN st ELSE (k :> v) @@ st

store_set(st, k, v) == (k :> v) @@ st

store_get(st, k) == k \in DOMAIN st /\ st[k]

\* ------------------------------------------------------------------ __init__

\* __init__ with the final else branch lost: any key is taken as a component.
__init__any_key(st, key) ==
    [store |-> set_default(set_default(st, "slurm_installed", FALSE),
                           "slurm_started", FALSE),
     component |-> key, exc |-> "none"]

\* __init__ assigning the two flags instead of setting their defaults.
__init__resetting(st, key) ==
    LET st2 == store_set(store_set(st, "slurm_installed", FALSE),
                         "slurm_started", FALSE)
    IN  IF key \in {"slurmd", "slurmrestd", "slurmctld", "slurmdbd"}
        THEN [store |-> st2, component |-> key, exc |-> "none"]
        ELSE [store |-> st2, component |-> "none", exc |-> "Exception"]

\* __init__ (lines 39-63): the defaults are set first, then the key decides;
\* the result is the store and the component of the new manager, "none" with
\* exception "Exception" for an unsupported key.
__init__(st, key) ==
    LET st1 == set_default(st, "slurm_installed", FALSE)
        st2 == set_default(st1, "slurm_started", FALSE)
    IN  IF key = "slurmdbd"
        THEN [store |-> st2, component |-> key, exc |-> "none"]
        ELSE IF key \in {"slurmd", "slurmrestd", "slurmctld", "slurmdbd"}
        THEN [store |-> st2, component |-> key, exc |-> "none"]
        ELSE [store |-> st2, component |-> "none", exc |-> "Exception"]

\* ------------------------------------------------------------------ slurm_systemctl

\* What systemctl <operation> <comp> does to the host when it exits 0: the
\* service is stopped, or started; a started service stays up or crashes at
\* once (up).
systemctl_effect(f, comp, operation, up) ==
    IF ~Succeeded(f) \/ operation \notin {"start", "stop", "restart"} THEN f
    ELSE IF operation = "stop" \/ ~up
    THEN [f EXCEPT !.host.running = @ \ {comp}]
    ELSE [f EXCEPT !.host.running = @ \cup {comp}]

\* mark_started looking at the exit status: only a start that exited 0 counts.
mark_started_if_zero(f, operation) ==
    IF f.exc = "none" /\ operation = "start" /\ f.rc = "zero"
    THEN [f EXCEPT !.store = store_set(@, "slurm_started", TRUE)]
    ELSE f

\* mark_started counting a restart as a start.
mark_started_or_restarted(f, operation) ==
    IF f.exc = "none" /\ operation \in {"start", "restart"}
    THEN [f EXCEPT !.store = store_set(@, "slurm_started", TRUE)]
    ELSE f

\* Lines 87-88: the flag is set after the call returned, whatever it returned.
mark_started(f, operation) ==
    IF f.exc = "none" /\ operation = "start"
    THEN [f EXCEPT !.store = store_set(@, "slurm_started", TRUE)]
    ELSE f

\* slurm_systemctl validating after the call instead of before it.
slurm_systemctl_late_check(f, comp, operation, oc, up) ==
    IF f.exc # "none" THEN f
    ELSE LET c == subprocess_call(f, <<"systemctl", operation, comp>>, oc)
         IN  IF operation \notin {"start", "stop", "restart"}
             THEN Raise(c, "Exception")
             ELSE mark_started(systemctl_effect(c, comp, operation, up),
                               operation)

\* slurm_systemctl (lines 73-90).
slurm_systemctl(f, comp, operation, oc, up) ==
    IF f.exc # "none" THEN f
    ELSE IF operation \notin {"start", "stop", "restart"}
    THEN Raise(f, "Exception")
    ELSE LET c == subprocess_call(f, <<"systemctl", operation, comp>>, oc)
             e == systemctl_effect(c, comp, operation, up)
         IN  except_CalledProcessError(mark_started(e, operation))

\* ------------------------------------------------------------------ write_config

\* The host name self._hostname would resolve to.
Hostname == "node1"

\* Line 102: {**{"hostname": self._hostname}, **context}: the keys of both,
\* a key of both taking the value of the right operand.
MergeCtxt(hostname, items) ==
    [k \in {"hostname"} \cup DOMAIN items |->
        IF k \in DOMAIN items THEN items[k] ELSE hostname]

\* The keys the config templates refer to.
TemplateKeys == {"hostname", "cluster_name"}

\* Template.render(ctxt): every variable of the template is replaced by its
\* value in ctxt, by the empty string when undefined; other keys are unused.
Render(ctxt) ==
    [k \in TemplateKeys |-> IF k \in DOMAIN ctxt THEN ctxt[k] ELSE ""]

NoFile == [exists |-> FALSE, text |-> Render([k \in {} |-> ""])]

File(text) == [exists |-> TRUE, text |-> text]

\* Lines 112-115: unlink the target when it exists, then write it.
write_target(f, target, text) ==
    IF f.exc # "none" THEN f
    ELSE LET u == IF f.host.conf[target].exists
                  THEN [f EXCEPT !.host.conf[target] = NoFile]
                  ELSE f
         IN  IF "/etc/slurm" \notin u.host.dirs
             THEN Raise(u, "FileNotFoundError")
             ELSE [u EXCEPT !.host.conf[target] = File(text)]

\* write_config (lines 92-115).  Line 96 reads self.slurm_config_template
\* and line 102 self._hostname: reading an attribute the instance does not
\* have raises AttributeError.
write_config(f, comp, context) ==
    IF ~HasAttr("slurm_config_template") THEN Raise(f, "AttributeError")
    ELSE IF context.type # "dict" THEN Raise(f, "TypeError")
    ELSE IF ~HasAttr("_hostname") THEN Raise(f, "AttributeError")
    ELSE LET m == [f EXCEPT !.ctxt = MergeCtxt(Hostname, context.items)]
         IN  IF ~m.host.templates THEN Raise(m, "FileNotFoundError")
             ELSE write_target(m, _slurm_conf(comp), Render(m.ctxt))

\* ------------------------------------------------------------------ provisioning

\* _chown_slurm_user_and_group_recursive (lines 133-143).
_chown_slurm_user_and_group_recursive(f, slurm_dir, oc) ==
    except_CalledProcessError(
        subprocess_call(f, <<"chown", "-R", "slurm:slurm", slurm_dir>>, oc))

\* groupadd and useradd exiting 0 create the group and the user.
groupadd_effect(f) ==
    IF Succeeded(f) THEN [f EXCEPT !.host.group = TRUE] ELSE f

useradd_effect(f) ==
    IF Succeeded(f) THEN [f EXCEPT !.host.user = TRUE] ELSE f

\* _create_slurm_user_and_group with both commands in one try block that
\* gives up after a groupadd that did not exit 0.
_create_slurm_user_and_group_one_try(f, ocGroup, ocUser) ==
    LET g == groupadd_effect(
                 subprocess_call(f, <<"groupadd", "-r", "--gid=995", "slurm">>,
                                 ocGroup))
    IN  IF g.exc = "none" /\ g.rc # "zero" THEN g
        ELSE except_CalledProcessError(useradd_effect(
                 subprocess_call(g, <<"useradd", "-r", "-g", "slurm",
                                      "--uid=995", "slurm">>, ocUser)))

\* _create_slurm_user_and_group (lines 145-167).
_create_slurm_user_and_group(f, ocGroup, ocUser) ==
    LET g == except_CalledProcessError(groupadd_effect(
                 subprocess_call(f, <<"groupadd", "-r", "--gid=995", "slurm">>,
                                 ocGroup)))
    IN  except_CalledProcessError(useradd_effect(
            subprocess_call(g, <<"useradd", "-r", "-g", "slurm", "--uid=995",
                                 "slurm">>, ocUser)))

\* Path(d).mkdir(parents=True): missing parents are made, and a path that
\* exists raises FileExistsError (exist_ok is not given).
mkdir(f, d) ==
    IF f.exc # "none" THEN f
    ELSE IF d \in f.host.dirs THEN Raise(f, "FileExistsError")
    ELSE [f EXCEPT !.host.dirs = @ \cup {d}]

\* Path(p).touch(): creates the file when it is missing.
touch(f, p) ==
    IF f.exc # "none" THEN f ELSE [f EXCEPT !.host.files = @ \cup {p}]

\* The rerun field of a call tells whether an earlier run has left one of
\* the directories of _prepare_filesystem: no host starts with one.
\* The loops of lines 202-204 and 177-179: mkdir, then chown, per directory;
\* ocs gives the outcome of each chown.
RECURSIVE mkdir_chown_each(_, _, _)
mkdir_chown_each(f, ds, ocs) ==
    IF ds = <<>> THEN f
    ELSE mkdir_chown_each(
             _chown_slurm_user_and_group_recursive(
                 mkdir(f, Head(ds)), Head(ds), Head(ocs)),
             Tail(ds), Tail(ocs))

\* The loop of lines 192-193.
RECURSIVE touch_each(_, _)
touch_each(f, ps) ==
    IF ps = <<>> THEN f ELSE touch_each(touch(f, Head(ps)), Tail(ps))

\* _prepare_for_slurmd (lines 169-194); ocs: the outcomes of its five chowns.
_prepare_for_slurmd(f, ocs) ==
    _chown_slurm_user_and_group_recursive(
        touch_each(mkdir_chown_each(f, slurmd_dirs, SubSeq(ocs, 1, 4)),
                   slurmd_files),
        "/var/lib/slurmd", ocs[5])

\* _prepare_filesystem (lines 196-207); ocs: the outcomes of its two chowns,
\* ocsd: those of _prepare_for_slurmd.
_prepare_filesystem(f, comp, ocs, ocsd) ==
    LET g == mkdir_chown_each(f, slurm_dirs, ocs)
    IN  IF comp = "slurmd" THEN _prepare_for_slurmd(g, ocsd) ELSE g

\* tar exiting 0 has extracted the archive into the staging directory: the
\* readiness file sbin/slurmd is there when the archive holds it.
tar_effect(f, hasSlurmd) ==
    IF Succeeded(f) /\ hasSlurmd THEN [f EXCEPT !.host.staged = TRUE] ELSE f

\* Lines 211-227 with resource_path bound whatever the fetch did: tar is run.
fetch_and_untar_unchecked(f, fetchOk, oc, hasSlurmd) ==
    except_CalledProcessError(tar_effect(
        subprocess_call(f, <<"tar", "-xzvf", "slurm.tar.gz",
                             "--one-top-level=/tmp/slurm-resource">>, oc),
        fetchOk /\ hasSlurmd))

\* Lines 211-227 of _provision_slurm_resource: fetch, then tar.  A failed
\* fetch is logged and leaves resource_path unbound, so that building the
\* argument list of tar raises UnboundLocalError.
fetch_and_untar(f, fetchOk, oc, hasSlurmd) ==
    IF ~fetchOk THEN Raise(f, "UnboundLocalError")
    ELSE except_CalledProcessError(tar_effect(
             subprocess_call(f, <<"tar", "-xzvf", "slurm.tar.gz",
                                  "--one-top-level=/tmp/slurm-resource">>, oc),
             hasSlurmd))

\* The test of line 231 taken for passed without looking.
readiness_unchecked(h) == TRUE

\* Line 231: Path("/tmp/slurm-resource/sbin/slurmd").exists().
readiness_file_exists(h) == h.staged

\* cp -R <staging>/<d>/* /usr/local/<d>/ exiting 0 has installed the subtree.
cp_effect(f, d) ==
    IF Succeeded(f) THEN [f EXCEPT !.host.usrlocal = @ \cup {d}] ELSE f

\* The loop of lines 234-242 giving up at the first copy that did not exit 0.
RECURSIVE copy_each_until_failure(_, _, _)
copy_each_until_failure(f, ds, ocs) ==
    IF ds = <<>> \/ (f.log # <<>> /\ f.rc = "nonzero") THEN f
    ELSE copy_each_until_failure(
             cp_effect(subprocess_call(f, <<"cp", "-R", Head(ds)>>, Head(ocs)),
                       Head(ds)),
             Tail(ds), Tail(ocs))

\* The loop of lines 234-242.
RECURSIVE copy_each(_, _, _)
copy_each(f, ds, ocs) ==
    IF ds = <<>> THEN f
    ELSE copy_each(
             except_CalledProcessError(cp_effect(
                 subprocess_call(f, <<"cp", "-R", Head(ds)>>, Head(ocs)),
                 Head(ds))),
             Tail(ds), Tail(ocs))

\* Lines 247 and 250 in the other order: ldconfig, then the write.
_set_ld_library_path_ldconfig_first(f, oc) ==
    LET a == except_CalledProcessError(subprocess_call(f, <<"ldconfig">>, oc))
    IN  IF a.exc # "none" THEN a ELSE [a EXCEPT !.host.ldconf = TRUE]

\* _set_ld_library_path (lines 244-250).
_set_ld_library_path(f, oc) ==
    IF f.exc # "none" THEN f
    ELSE except_CalledProcessError(
             subprocess_call([f EXCEPT !.host.ldconf = TRUE], <<"ldconfig">>, oc))

\* cp of the unit template exiting 0 has installed the unit file.
unit_effect(f, comp) ==
    IF Succeeded(f) THEN [f EXCEPT !.host.units = @ \cup {comp}] ELSE f

\* _setup_systemd (lines 252-266).
_setup_systemd(f, comp, ocCp, ocReload, ocEnable) ==
    LET a == unit_effect(subprocess_call(f, <<"cp", "unit", comp>>, ocCp), comp)
        b == subprocess_call(a, <<"systemctl", "daemon-reload">>, ocReload)
        c == slurm_systemctl(b, comp, "enable", ocEnable, FALSE)
    IN  except_CalledProcessError(c)

\* Lines 130-131 in the other order: the flag is set, then _setup_systemd runs.
mark_installed_and_setup(f, comp, ocCp, ocReload, ocEnable) ==
    _setup_systemd(
        IF f.exc = "none"
        THEN [f EXCEPT !.store = store_set(@, "slurm_installed", TRUE)]
        ELSE f,
        comp, ocCp, ocReload, ocEnable)

\* Lines 130-131 of prepare_system_for_slurm: the flag is set once
\* _setup_systemd has returned.
setup_and_mark_installed(f, comp, ocCp, ocReload, ocEnable) ==
    LET s == _setup_systemd(f, comp, ocCp, ocReload, ocEnable)
    IN  IF s.exc = "none"
        THEN [s EXCEPT !.store = store_set(@, "slurm_installed", TRUE)]
        ELSE s

\* ------------------------------------------------------------------ inputs

\* How many sleeps of the readiness poll are told apart.
MaxPolls == 2

\* How many calls of the public methods (the constructor included) a
\* behaviour makes.
MaxCalls == 3

\* The outcomes of n commands in a row: a command after one that could not
\* be spawned is not issued (OSError leaves the method), so its outcome is
\* not drawn.
OutcomeSeqs(n) ==
    {s \in [1..n -> Outcomes] :
        \A i \in 1..n : \A j \in 1..n :
            (i < j /\ s[i] = "nospawn") => s[j] = "zero"}

OutcomeSeqs2 == OutcomeSeqs(2)

OutcomeSeqs3 == OutcomeSeqs(3)

\* The exit statuses of the four copies.  Line 240 runs each through the
\* shell (shell=True): the child spawned is /bin/sh, and a cp that is
\* missing or fails is a non-zero exit status of the shell, never OSError.
ShellExitSeqs4 == [1..4 -> {"zero", "nonzero"}]

OutcomeSeqs5 == OutcomeSeqs(5)

\* The contexts a caller passes to write_config: values that are no dict,
\* and dicts with and without the key hostname.
Contexts ==
    {[type |-> "list", items |-> NoItems],
     [type |-> "dict", items |-> NoItems],
     [type |-> "dict", items |-> [k \in {"cluster_name"} |-> "c1"]],
     [type |-> "dict", items |-> [k \in {"hostname", "cluster_name"} |-> "c2"]]}

NoContext == [type |-> "none", items |-> NoItems]

\* A host nothing has been provisioned on; t: the charm ships its templates.
FreshHost(t) ==
    [dirs |-> {}, files |-> {}, group |-> FALSE, user |-> FALSE,
     staged |-> FALSE, usrlocal |-> {}, ldconf |-> FALSE, units |-> {},
     running |-> {}, conf |-> [p \in ConfPaths |-> NoFile], templates |-> t]

\* A host an operator has left a rendered config on.
ConfiguredHost(t) ==
    [FreshHost(t) EXCEPT
        !.dirs = {"/etc/slurm"},
        !.conf = [p \in ConfPaths |->
                     File(Render([k \in {"cluster_name"} |-> "c0"]))]]

IsFresh(h) == h = FreshHost(h.templates)

NoPrev == [method |-> "none", context |-> NoContext, exc |-> "none"]

NewCall(method, arg, context) ==
    [method |-> method, arg |-> arg, context |-> context, exc |-> "none",
     allZero |-> TRUE, rc |-> "none", ctxt |-> NoItems,
     fresh |-> IsFresh(host),
     rerun |-> Range(slurm_dirs) \cap host.dirs # {},
     account |-> <<"none", "none">>,
     fetchOk |-> FALSE, polls |-> 0, steps |-> <<>>, at |-> "none",
     prev |-> IF method = "write_config" /\ call.method = "write_config"
              THEN [method |-> call.method, context |-> call.context,
                    exc |-> call.exc]
              ELSE NoPrev]

slurm_installed == store_get(store, "slurm_installed")

slurm_component_started == store_get(store, "slurm_started")

\* ------------------------------------------------------------------ actions

Init ==
    /\ component = "none"
    /\ store = [k \in {} |-> FALSE]
    /\ host \in {FreshHost(t) : t \in BOOLEAN} \cup
                 {ConfiguredHost(t) : t \in BOOLEAN}
    /\ pc = "idle"
    /\ log = <<>>
    /\ call = [method |-> "none", arg |-> "", context |-> NoContext,
               exc |-> "none", allZero |-> TRUE, rc |-> "none",
               ctxt |-> NoItems, fresh |-> TRUE, rerun |-> FALSE,
               account |-> <<"none", "none">>, fetchOk |-> FALSE, polls |-> 0,
               steps |-> <<>>, at |-> "none", prev |-> NoPrev]
    /\ completed = FALSE
    /\ calls = 0

\* A method that runs in one step ends: the frame is the new state.
Return(f, c) ==
    /\ store' = f.store
    /\ host' = f.host
    /\ log' = f.log
    /\ call' = [c EXCEPT !.exc = f.exc, !.allZero = f.allZero, !.rc = f.rc,
                         !.ctxt = f.ctxt]
    /\ pc' = "idle"

\* SlurmInstallManager(charm, key).
Construct(key) ==
    /\ pc = "idle"
    /\ calls < MaxCalls
    /\ calls' = calls + 1
    /\ LET r == __init__(store, key)
       IN  /\ component' = r.component
           /\ store' = r.store
           /\ call' = [NewCall("__init__", key, NoContext) EXCEPT !.exc = r.exc]
    /\ log' = <<>>
    /\ UNCHANGED <<host, pc, completed>>

\* self.slurm_systemctl(operation).  systemctl exits 0 only for a unit that
\* is installed.
SlurmSystemctl(operation) ==
    /\ pc = "idle"
    /\ component # "none"
    /\ calls < MaxCalls
    /\ calls' = calls + 1
    /\ \E oc \in Outcomes :
       \E up \in IF oc = "zero" /\ operation \in {"start", "restart"}
                 THEN BOOLEAN ELSE {FALSE} :
          /\ oc = "zero" => component \in host.units
          /\ Return(slurm_systemctl(Frame(store, host, <<>>, TRUE, "none"),
                                    component, operation, oc, up),
                    NewCall("slurm_systemctl", operation, NoContext))
    /\ UNCHANGED <<component, completed>>

\* self.write_config(context).
WriteConfig(context) ==
    /\ pc = "idle"
    /\ component # "none"
    /\ calls < MaxCalls
    /\ calls' = calls + 1
    /\ Return(write_config(Frame(store, host, <<>>, TRUE, "none"),
                           component, context),
              NewCall("write_config", "", context))
    /\ UNCHANGED <<component, completed>>

\* A step of prepare_system_for_slurm ends, from the call record c: the next
\* step, or the exception leaves the method.  at: the top-level step of
\* lines 124-130 that was running; returned: whether it has returned.
Step(f, c, at, returned, next) ==
    /\ store' = f.store
    /\ host' = f.host
    /\ log' = f.log
    /\ pc' = IF f.exc = "none" THEN next ELSE "idle"
    /\ call' = [c EXCEPT
           !.exc = f.exc, !.allZero = f.allZero,
           !.steps = IF f.exc = "none" /\ returned THEN Append(@, at) ELSE @,
           !.at = IF f.exc = "none" THEN @ ELSE at]

Running == Frame(store, host, log, call.allZero, "none")

\* self.prepare_system_for_slurm(), line 124.  groupadd exits 0 only when it
\* has created the group, useradd only when it has created the user in an
\* existing group.
PrepareSystemForSlurm ==
    /\ pc = "idle"
    /\ component # "none"
    /\ calls < MaxCalls
    /\ calls' = calls + 1
    /\ \E ocGroup, ocUser \in Outcomes :
          /\ ocGroup = "zero" => ~host.group
          /\ ocUser = "zero" => ~host.user /\ (host.group \/ ocGroup = "zero")
          /\ Step(_create_slurm_user_and_group(
                      Frame(store, host, <<>>, TRUE, "none"), ocGroup, ocUser),
                  [NewCall("prepare_system_for_slurm", "", NoContext)
                      EXCEPT !.account = <<ocGroup, ocUser>>],
                  "_create_slurm_user_and_group", TRUE, "_prepare_filesystem")
    /\ UNCHANGED <<component, completed>>

\* Line 125.
PrepareFilesystem ==
    /\ pc = "_prepare_filesystem"
    /\ \E ocs \in OutcomeSeqs2 :
       \E ocsd \in IF component = "slurmd" /\ ocs[2] # "nospawn" THEN OutcomeSeqs5
                   ELSE {[i \in 1..5 |-> "zero"]} :
          Step(_prepare_filesystem(Running, component, ocs, ocsd), call,
               "_prepare_filesystem", TRUE, "_provision_slurm_resource")
    /\ UNCHANGED <<component, completed, calls>>

\* Line 127, lines 211-227: up to the readiness poll.
ProvisionFetchAndUntar ==
    /\ pc = "_provision_slurm_resource"
    /\ \E fetchOk \in BOOLEAN, oc \in Outcomes, hasSlurmd \in BOOLEAN :
          Step(fetch_and_untar(Running, fetchOk, oc, hasSlurmd),
               [call EXCEPT !.fetchOk = fetchOk],
               "_provision_slurm_resource", FALSE, "poll")
    /\ UNCHANGED <<component, completed, calls>>

\* Lines 231-232: one test of the readiness file; it is there and the loop
\* ends, or the method sleeps and tests again.
ProvisionPoll ==
    /\ pc = "poll"
    /\ IF readiness_file_exists(host)
       THEN /\ pc' = "copy"
            /\ call' = call
       ELSE /\ pc' = "poll"
            /\ call' = [call EXCEPT
                   !.polls = IF @ < MaxPolls THEN @ + 1 ELSE @]
    /\ UNCHANGED <<component, store, host, log, completed, calls>>

\* The readiness file appears while the method polls (an extraction that
\* something else completes).
StagingAppears ==
    /\ pc = "poll"
    /\ ~host.staged
    /\ host' = [host EXCEPT !.staged = TRUE]
    /\ UNCHANGED <<component, store, pc, log, call, completed, calls>>

\* Lines 234-242: the copies.
ProvisionCopy ==
    /\ pc = "copy"
    /\ \E ocs \in ShellExitSeqs4 :
          Step(copy_each(Running, slurm_resource_dirs, ocs), call,
               "_provision_slurm_resource", TRUE, "_set_ld_library_path")
    /\ UNCHANGED <<component, completed, calls>>

\* Line 128.
SetLdLibraryPath ==
    /\ pc = "_set_ld_library_path"
    /\ \E oc \in Outcomes :
          Step(_set_ld_library_path(Running, oc), call,
               "_set_ld_library_path", TRUE, "_setup_systemd")
    /\ UNCHANGED <<component, completed, calls>>

\* Lines 130-131, and the return of prepare_system_for_slurm.
SetupSystemd ==
    /\ pc = "_setup_systemd"
    /\ \E ocs \in OutcomeSeqs3 :
          LET f == setup_and_mark_installed(Running, component, ocs[1], ocs[2],
                                            ocs[3])
          IN  /\ Step(f, call, "_setup_systemd", TRUE, "idle")
              /\ completed' = (completed \/ f.exc = "none")
    /\ UNCHANGED <<component, calls>>

Next ==
    \/ \E key \in Keys : Construct(key)
    \/ \E operation \in OperationInputs : SlurmSystemctl(operation)
    \/ \E context \in Contexts : WriteConfig(context)
    \/ PrepareSystemForSlurm
    \/ PrepareFilesystem
    \/ ProvisionFetchAndUntar
    \/ ProvisionPoll
    \/ StagingAppears
    \/ ProvisionCopy
    \/ SetLdLibraryPath
    \/ SetupSystemd

Spec == Init /\ [][Next]_vars

\* The caller's one thread keeps running a method it is in: a test of the
\* readiness file that can be made is made (weak fairness of the poll), and
\* the copies that follow it are run and end, each being a child that is
\* waited for (the method does not stay at the copies for ever).
SpecLive == Spec /\ WF_vars(ProvisionPoll) /\ []<>(pc # "copy")

\* ------------------------------------------------------------------ the merge alone
\* Line 102 as a function of its two inputs: a resolved host name and the
\* items of a dict context are drawn, and the merge is applied to them.

MergeKeys == {"hostname", "cluster_name", "port"}

MergeValues == {"node1", "node2", "c1"}

MergeItems == UNION {[K -> MergeValues] : K \in SUBSET MergeKeys}

MergeInit ==
    /\ component \in Roles
    /\ store = [k \in {"slurm_installed", "slurm_started"} |-> FALSE]
    /\ host = FreshHost(TRUE)
    /\ pc = "idle"
    /\ log = <<>>
    /\ \E hostname \in {"node1", "node2"}, items \in MergeItems :
          call = [method |-> "none", arg |-> hostname,
                  context |-> [type |-> "dict", items |-> items],
                  exc |-> "none", allZero |-> TRUE, rc |-> "none",
                  ctxt |-> NoItems, fresh |-> TRUE, rerun |-> FALSE,
                  account |-> <<"none", "none">>, fetchOk |-> FALSE,
                  polls |-> 0, steps |-> <<>>, at |-> "none", prev |-> NoPrev]
    /\ completed = FALSE
    /\ calls = 0

Merge ==
    /\ call.method = "none"
    /\ call' = [call EXCEPT !.method = "merge",
                            !.ctxt = MergeCtxt(call.arg, call.context.items)]
    /\ UNCHANGED <<component, store, host, pc, log, completed, calls>>

SpecMerge == MergeInit /\ [][Merge]_vars

\* ------------------------------------------------------------------ claims

PrepareCall == call.method = "prepare_system_for_slurm"

\* The call of prepare_system_for_slurm has ended.
PrepareEnded == PrepareCall /\ pc = "idle"

\* C1: slurm_installed is true only if some run of prepare_system_for_slurm
\* has returned with all five steps done and no exception; and every step of
\* a run other than its normal return leaves slurm_installed as it was, so
\* that a run that aborts at any step leaves the flag at its previous value.
C1_InstalledOnlyAfterCompleteRun ==
    /\ [](slurm_installed => completed)
    /\ []((PrepareEnded /\ call.exc = "none") => Len(call.steps) = 5)
    /\ [][(call'.method = "prepare_system_for_slurm"
            /\ ~(pc' = "idle" /\ call'.exc = "none"))
           => slurm_installed' = slurm_installed]_vars

\* A run that has done four steps and aborted in the fifth; the flag is false.
C1_Witness ==
    /\ PrepareEnded
    /\ call.exc # "none"
    /\ call.at = "_setup_systemd"
    /\ Len(call.steps) = 4
    /\ ~slurm_installed

\* C2: a run of prepare_system_for_slurm on a fresh host, where every
\* command exited 0, the fetch succeeded and the readiness file is there,
\* has returned normally with slurm_installed true.
C2_ProvisionCompletes ==
    (PrepareEnded /\ call.fresh /\ call.allZero /\ call.fetchOk /\ host.staged)
        => (call.exc = "none" /\ slurm_installed)

\* C3: a run of prepare_system_for_slurm on a host where an earlier run has
\* left directories of the manifest does not abort on them: it goes on past
\* the filesystem layout.
C3_RerunDoesNotAbort ==
    (PrepareEnded /\ call.rerun)
        => (call.exc # "FileExistsError" /\ call.at # "_prepare_filesystem")

\* C4: slurm_systemctl with an operation outside {start, stop, restart}
\* raises with no command issued and the store unchanged; with one inside,
\* the validation passes and exactly one systemctl <op> <component> is
\* issued.  No systemctl command with another operation is ever issued
\* (daemon-reload is the command of _setup_systemd).
C4_SystemctlValidates ==
    /\ [](\A i \in DOMAIN log :
            log[i][1] = "systemctl"
                => log[i][2] \in Operations \cup {"daemon-reload"})
    /\ [][call'.method = "slurm_systemctl" =>
            IF call'.arg \in Operations
            THEN /\ call'.exc # "Exception"
                 /\ log' = << <<"systemctl", call'.arg, component>> >>
            ELSE /\ call'.exc = "Exception"
                 /\ log' = <<>>
                 /\ store' = store
                 /\ host' = host]_vars

\* slurm_systemctl("destroy") was rejected with nothing issued.
C4_Witness ==
    /\ call.method = "slurm_systemctl"
    /\ call.arg = "destroy"
    /\ call.exc = "Exception"
    /\ log = <<>>

\* C5: after slurm_systemctl("start") whose systemctl was spawned,
\* slurm_started is true, whether the exit status was zero or not.
C5_StartedAfterStart ==
    (call.method = "slurm_systemctl" /\ call.arg = "start"
        /\ call.rc \in {"zero", "nonzero"})
        => slurm_component_started

\* systemctl start exited non-zero, the service is not running, and the flag
\* is true.
C5_Witness ==
    /\ call.method = "slurm_systemctl"
    /\ call.arg = "start"
    /\ call.rc = "nonzero"
    /\ component \notin host.running
    /\ slurm_component_started

\* C6: write_config with a context that is no dict raises TypeError and
\* leaves the config files as they were.
C6_NonMappingIsTypeError ==
    [][(call'.method = "write_config" /\ call'.context.type # "dict")
        => (call'.exc = "TypeError" /\ host'.conf = host.conf)]_vars

\* C7: two calls of write_config in a row with dict contexts, the template
\* present, both succeed, and the target holds the rendering of the second
\* context.
C7_SecondRenderWins ==
    (/\ call.method = "write_config"
     /\ call.prev.method = "write_config"
     /\ call.context.type = "dict"
     /\ call.prev.context.type = "dict"
     /\ host.templates)
        => /\ call.exc = "none"
           /\ call.prev.exc = "none"
           /\ host.conf[_slurm_conf(component)] =
                  File(Render(MergeCtxt(Hostname, call.context.items)))

\* C8: in the merged context the key hostname maps to the resolved host
\* name, and every other key of the caller's context keeps its value.
C8_HostnameTakesPrecedence ==
    call.method = "merge"
        => /\ call.ctxt["hostname"] = call.arg
           /\ \A k \in DOMAIN call.context.items \ {"hostname"} :
                 call.ctxt[k] = call.context.items[k]

GroupaddCmd == <<"groupadd", "-r", "--gid=995", "slurm">>

UseraddCmd == <<"useradd", "-r", "-g", "slurm", "--uid=995", "slurm">>

\* C9: whatever the exit statuses of groupadd and useradd,
\* _create_slurm_user_and_group has issued groupadd, then useradd, and has
\* returned: the run is past it and no exception has left it.
C9_AccountStepNeverRaisesOnExit ==
    (PrepareCall /\ call.account \in {"zero", "nonzero"} \X {"zero", "nonzero"})
        => /\ Len(log) >= 2
           /\ log[1] = GroupaddCmd
           /\ log[2] = UseraddCmd
           /\ call.at # "_create_slurm_user_and_group"
           /\ Len(call.steps) >= 1
           /\ call.steps[1] = "_create_slurm_user_and_group"

\* A second invocation: group and user exist, both commands exited non-zero
\* and the run is at its next step.
C9_Witness ==
    /\ PrepareCall
    /\ call.account = <<"nonzero", "nonzero">>
    /\ host.group
    /\ host.user
    /\ pc = "_prepare_filesystem"
    /\ log = <<GroupaddCmd, UseraddCmd>>

\* C10: constructing with a key outside the four roles raises, leaves no
\* manager, changes nothing on the host and issues no command; constructing
\* with one of the four succeeds.
C10_ConstructValidatesKey ==
    [][call'.method = "__init__" =>
        IF call'.arg \in {"slurmd", "slurmrestd", "slurmctld", "slurmdbd"}
        THEN call'.exc = "none" /\ component' = call'.arg
        ELSE /\ call'.exc = "Exception"
             /\ component' = "none"
             /\ host' = host
             /\ log' = <<>>]_vars

\* The unsupported key was refused.
C10_Witness ==
    /\ call.method = "__init__"
    /\ call.arg = "munge"
    /\ call.exc = "Exception"
    /\ component = "none"

\* The four copies of lines 234-242, in order.
CopyCmds == [i \in 1..4 |-> <<"cp", "-R", slurm_resource_dirs[i]>>]

IsCopy(cmd) == cmd[1] = "cp" /\ cmd[2] = "-R"

\* C11: a poll loop that finds the readiness file (there at once, or once
\* it has appeared) is left, the four copies bin, sbin, lib, include are
\* issued in that order, each once, and the method returns; while the file
\* is absent the method stays in the loop, with no error, however many
\* sleeps there have been.
C11_PollEndsOnlyOnReadiness ==
    /\ (pc = "poll" /\ host.staged) ~> (pc = "_set_ld_library_path")
    /\ [](pc = "_set_ld_library_path" =>
            /\ Len(log) >= 4
            /\ SubSeq(log, Len(log) - 3, Len(log)) = CopyCmds
            /\ Cardinality({i \in DOMAIN log : IsCopy(log[i])}) = 4)
    /\ [][(pc = "poll" /\ ~host'.staged)
            => (pc' = "poll" /\ call'.exc = "none" /\ log' = log)]_vars

\* The method has slept, then found the file, copied and returned.
C11_Witness ==
    /\ pc = "_set_ld_library_path"
    /\ call.polls >= 1
    /\ SubSeq(log, Len(log) - 3, Len(log)) = CopyCmds

\* C12: both flags are false at the start, and no step of any method
\* (a new manager over the same store, prepare_system_for_slurm, write_config,
\* slurm_systemctl with any operation) takes a flag from true to false.
C12_FlagsMonotone ==
    /\ [](calls = 0 => (~slurm_installed /\ ~slurm_component_started))
    /\ []((calls = 1 /\ component # "none") =>
            (store = [k \in {"slurm_installed", "slurm_started"} |-> FALSE]))
    /\ [][/\ slurm_installed => slurm_installed'
          /\ slurm_component_started => slurm_component_started']_vars

\* A manager was constructed over a store whose slurm_started is true, and
\* the flag is still true.
C12_Witness ==
    /\ call.method = "__init__"
    /\ calls > 1
    /\ slurm_component_started

IsTar(cmd) == cmd[1] = "tar"

\* C13: a copy of a staging subtree is issued only once the readiness file
\* has been seen, and after tar; tar is the last command issued when the
\* poll begins and while it lasts.
C13_NoCopyBeforeReadiness ==
    PrepareCall =>
        /\ \A i \in DOMAIN log :
              IsCopy(log[i]) =>
                  (host.staged /\ \E j \in 1..(i - 1) : IsTar(log[j]))
        /\ pc \in {"poll", "copy"} => (log # <<>> /\ IsTar(log[Len(log)]))
        /\ pc = "copy" => host.staged

\* The poll has ended on the file being there and the copies are due.
C13_Witness ==
    /\ PrepareCall
    /\ pc = "copy"
    /\ host.staged
    /\ IsTar(log[Len(log)])

\* C14: a failed fetch ends _provision_slurm_resource and the run at once:
\* no tar is issued, the poll is not entered, nothing is copied and the
\* store is as it was.
C14_FailedFetchAborts ==
    /\ [][(pc = "_provision_slurm_resource" /\ ~call'.fetchOk) =>
            /\ pc' = "idle"
            /\ call'.exc # "none"
            /\ log' = log
            /\ host' = host
            /\ store' = store]_vars
    /\ []((PrepareEnded /\ call.at = "_provision_slurm_resource"
              /\ ~call.fetchOk) =>
            /\ \A i \in DOMAIN log : ~IsTar(log[i]) /\ ~IsCopy(log[i])
            /\ call.polls = 0
            /\ ~slurm_installed)

\* A run whose fetch failed has ended in _provision_slurm_resource.
C14_Witness ==
    /\ PrepareEnded
    /\ call.at = "_provision_slurm_resource"
    /\ ~call.fetchOk
    /\ call.exc = "UnboundLocalError"

\* The top-level steps of prepare_system_for_slurm, in the order of lines
\* 124-130.
StepNames ==
    <<"_create_slurm_user_and_group", "_prepare_filesystem",
      "_provision_slurm_resource", "_set_ld_library_path", "_setup_systemd">>

\* The step a command belongs to, as its position in StepNames.
StepOf(cmd) ==
    IF cmd[1] \in {"groupadd", "useradd"} THEN 1
    ELSE IF cmd[1] = "chown" THEN 2
    ELSE IF IsTar(cmd) \/ IsCopy(cmd) THEN 3
    ELSE IF cmd[1] = "ldconfig" THEN 4
    ELSE 5

\* C15: the steps of a run return in the order of StepNames, a command of
\* a step is issued only when every step before it has returned, the linker
\* file is written before ldconfig is run, and slurm_installed changes only
\* in the transition in which the last step returns.
C15_StepsInOrder ==
    /\ [](PrepareCall =>
            /\ Len(call.steps) <= Len(StepNames)
            /\ call.steps = SubSeq(StepNames, 1, Len(call.steps))
            /\ \A i \in DOMAIN log : StepOf(log[i]) <= Len(call.steps) + 1
            /\ \A i, j \in DOMAIN log : i < j => StepOf(log[i]) <= StepOf(log[j])
            /\ (\E i \in DOMAIN log : log[i] = <<"ldconfig">>) => host.ldconf)
    /\ [][slurm_installed' # slurm_installed => call'.steps = StepNames]_vars

\* A run went through the first four steps and ended in the fifth, with
\* commands of the fifth issued.
C15_Witness ==
    /\ PrepareEnded
    /\ call.at = "_setup_systemd"
    /\ Len(call.steps) = 4
    /\ \E i \in DOMAIN log : log[i] = <<"ldconfig">>
    /\ log[Len(log)] = <<"systemctl", "daemon-reload">>

\* C16: whenever _setup_systemd runs and every command it needs can be
\* spawned, it copies the unit, reloads the daemon, enables the unit, in
\* that order, and returns normally.
C16_SetupSystemdEnables ==
    [][(pc = "_setup_systemd" /\ call'.exc # "OSError") =>
        /\ call'.exc = "none"
        /\ log' = log \o << <<"cp", "unit", component>>,
                             <<"systemctl", "daemon-reload">>,
                             <<"systemctl", "enable", component>> >>]_vars

Chowns(ds) == [i \in 1..Len(ds) |-> <<"chown", "-R", "slurm:slurm", ds[i]>>]

\* The commands of a run of prepare_system_for_slurm in which every command
\* exits 0, in the order they are issued, up to the end of the run.
ExpectedCmds(comp) ==
    << GroupaddCmd, UseraddCmd >>
    \o Chowns(slurm_dirs)
    \o (IF comp = "slurmd"
        THEN Chowns(slurmd_dirs) \o Chowns(<<"/var/lib/slurmd">>)
        ELSE <<>>)
    \o << <<"tar", "-xzvf", "slurm.tar.gz",
            "--one-top-level=/tmp/slurm-resource">> >>
    \o CopyCmds
    \o << <<"ldconfig">>, <<"cp", "unit", comp>>,
          <<"systemctl", "daemon-reload">> >>

IsPrefix(s, t) == Len(s) <= Len(t) /\ s = SubSeq(t, 1, Len(s))

\* C17: no exit status of a command raises: CalledProcessError is never in
\* flight, the commands of a run are always a prefix of the commands of the
\* run in which all exit 0, and a run that no spawn failure, existing
\* directory or failed fetch has ended has issued all of them, each once.
C17_ExitStatusNeverAborts ==
    /\ call.exc # "CalledProcessError"
    /\ PrepareCall => IsPrefix(log, ExpectedCmds(component))
    /\ (PrepareEnded /\ call.exc \notin {"OSError", "FileExistsError",
                                          "UnboundLocalError"})
          => log = ExpectedCmds(component)

\* A run in which some command exited non-zero has issued every command.
C17_Witness ==
    /\ PrepareEnded
    /\ ~call.allZero
    /\ call.exc \notin {"OSError", "FileExistsError", "UnboundLocalError"}
    /\ log = ExpectedCmds(component)

\* C18: a command that cannot be spawned does not end the run: no run of
\* prepare_system_for_slurm is left by the OSError of a spawn failure.
C18_SpawnFailureDoesNotAbort ==
    PrepareCall => call.exc # "OSError"

\* C19: write_config with a dict context and no template raises
\* FileNotFoundError and leaves the config files as they were; and a call
\* that changes a config file had a dict context and the template.
C19_MissingTemplateIsFileNotFound ==
    /\ [][(call'.method = "write_config" /\ calls' # calls
            /\ call'.context.type = "dict" /\ ~host.templates)
          => (call'.exc = "FileNotFoundError" /\ host'.conf = host.conf)]_vars
    /\ [][host'.conf # host.conf
          => (call'.method = "write_config" /\ call'.context.type = "dict"
              /\ host.templates)]_vars

\* C20: slurm_started changes only in a slurm_systemctl("start") that has
\* spawned `systemctl start <component>`; slurm_systemctl leaves
\* slurm_installed as it was.
C20_StartedOnlyByStart ==
    /\ [][slurm_component_started' # slurm_component_started =>
            /\ call'.method = "slurm_systemctl"
            /\ call'.arg = "start"
            /\ call'.exc = "none"
            /\ log' = << <<"systemctl", "start", component>> >>]_vars
    /\ [][(call'.method = "slurm_systemctl" /\ calls' # calls)
            => slurm_installed' = slurm_installed]_vars
    /\ [](slurm_component_started => calls >= 2)

\* A restart was issued on a store whose slurm_started is false, and it is
\* still false.
C20_Witness ==
    /\ call.method = "slurm_systemctl"
    /\ call.arg = "restart"
    /\ call.exc = "none"
    /\ log = << <<"systemctl", "restart", component>> >>
    /\ ~slurm_component_started

====
